---- MODULE Spec2Model ----
(***************************************************************************)
(* Model of the Genie chat front-end (src/genie_ui2.py): the polling loop, *)
(* the JSON-file chat history, the HTTP wrappers, the attachment renderer  *)
(* and the Streamlit handlers of one user session.                         *)
(***************************************************************************)
EXTENDS Integers, Sequences, FiniteSets, TLC

VARIABLES
    \* ---- poll_genie_message (one call) ----
    pollPc,            \* "loop" | "sleep" | "done" | "off"
    poll_interval,     \* argument poll_interval
    timeout,           \* argument timeout
    svc,               \* the service the call runs against (fixture or free)
    now,               \* time.time()
    start_time,        \* local start_time
    fetches,           \* number of requests.get issued so far
    lastFetch,         \* elapsed time at the last fetch and its response
    pollResult,        \* what the call returned or raised
    \* ---- CHAT_HISTORY_FILE and the sessions appending to it ----
    chatFile,          \* the file genie_chat_history.json
    priorHistory,      \* the entries the file held at the start
    appPc,             \* per session: position inside append_chat_history
    appLocal,          \* per session: the local list `history`
    appEntry,          \* per session: the entry being appended
    appended,          \* entries whose append_chat_history call has returned
    \* ---- one user session of the chat page ----
    session_state,     \* st.session_state: conversation_id, message_id, last_prompt
    selected_space_idx,\* st.session_state['selected_space_idx']
    requests,          \* the HTTP requests the session has issued, in order
    ops,               \* the start / follow-up submissions and what they returned
    lastEvent,         \* the handler that ran last
    lastPoll,          \* how the poll of the last submission ended
    convSpace,         \* service side: the space each conversation was created in
    nextId,            \* service side: the next fresh identifier
    \* ---- display_genie_message (one call) ----
    dispPc,            \* "loop" | "done" | "raised" | "off"
    message,           \* argument message
    attIdx,            \* position of the for loop in attachments
    items,             \* what has been rendered, in order
    errors,            \* the st.error messages shown, with the attachment's index
    fetched,           \* the response fetch_attachment got, per attachment
    \* ---- the four HTTP wrappers applied to single responses ----
    httpLog,
    \* ---- access control: the two JSON files, requesting users, the admin ----
    access_control,    \* genie_access_control.json: email -> granted space ids
    access_requests,   \* genie_access_requests.json: the pending requests
    reqPc,             \* per user: position inside the request handler
    reqLocal,          \* per user: the local requests_list
    adminPc,           \* position of the admin panel's run
    adminAccess,       \* the admin run's access_control
    adminRequests,     \* the admin run's requests_list
    adminGrant         \* the form the admin submitted: email and grant_spaces

pollVars == <<pollPc, poll_interval, timeout, svc, now, start_time, fetches,
              lastFetch, pollResult>>
histVars == <<chatFile, priorHistory, appPc, appLocal, appEntry, appended>>
sessVars == <<session_state, selected_space_idx, requests, ops, lastEvent,
              lastPoll, convSpace, nextId>>
dispVars == <<dispPc, message, attIdx, items, errors, fetched>>
httpVars == <<httpLog>>
accVars == <<access_control, access_requests, reqPc, reqLocal, adminPc,
             adminAccess, adminRequests, adminGrant>>

vars == <<pollVars, histVars, sessVars, dispVars, httpVars, accVars>>

\* ------------------------------------------------------------------ bounds
MaxInterval == 2
MaxTimeout == 4
MaxFixtureN == 4
MaxLatency == 1
MaxAppends == 2
MaxOps == 2
MaxAttachments == 2
MaxCalls == 2

\* ------------------------------------------------------------- JSON values
\* Python's None. Every JSON value of the model is a record (a scalar x is
\* J(x)), so that values of different shapes can be compared.
None == [none |-> TRUE]
J(x) == [v |-> x]

\* dict.get(key): the value, or None when the key is absent.
Get(d, key) == IF key \in DOMAIN d THEN d[key] ELSE None

Last(seq) == seq[Len(seq)]
Range(seq) == {seq[i] : i \in 1..Len(seq)}

\* ------------------------------------------------------- the HTTP wrappers
HttpCodes == {200, 201, 404, 500}
Bodies == {"b1", "b2"}

\* lines 67, 80, 98, 124: res.status_code == 200
IsSuccess(status_code) == status_code = 200

\* lines 58-71 start_conversation on response res: the JSON, or None after
\* st.error(f"Failed to start conversation: {res.status_code} {res.text}").
StartConversation(res) ==
    IF IsSuccess(res.status_code)
    THEN [ok |-> TRUE, ret |-> res.json, error |-> None]
    ELSE [ok |-> FALSE, ret |-> None,
          error |-> [shown |-> "Failed to start conversation",
                     status_code |-> res.status_code, text |-> res.text]]

\* lines 79-83 of poll_genie_message on response res: the JSON, or
\* raise Exception(f"Polling failed: {status_code} - {text}").
PollFetch(res) ==
    IF IsSuccess(res.status_code)
    THEN [ok |-> TRUE, ret |-> res.json, error |-> None]
    ELSE [ok |-> FALSE, ret |-> None,
          error |-> [raised |-> "Polling failed",
                     status_code |-> res.status_code, text |-> res.text]]

\* lines 93-102 fetch_attachment on response res: the JSON, or None after
\* st.error("Failed to fetch attachment result").
FetchAttachment(res) ==
    IF IsSuccess(res.status_code)
    THEN [ok |-> TRUE, ret |-> res.json, error |-> None]
    ELSE [ok |-> FALSE, ret |-> None,
          error |-> [shown |-> "Failed to fetch attachment result"]]

\* lines 115-128 send_followup_message on response res: the JSON, or None
\* after st.error(f"Follow-up failed: {res.status_code} {res.text}").
SendFollowupMessage(res) ==
    IF IsSuccess(res.status_code)
    THEN [ok |-> TRUE, ret |-> res.json, error |-> None]
    ELSE [ok |-> FALSE, ret |-> None,
          error |-> [shown |-> "Follow-up failed",
                     status_code |-> res.status_code, text |-> res.text]]

\* ------------------------------------------------------ poll_genie_message
Statuses == {"PENDING", "RUNNING", "CANCELLED", "COMPLETED", "FAILED"}
TerminalStatuses == {"COMPLETED", "FAILED"}

\* A message resource as the service returns it: "status" may be missing.
Messages ==
    {[id |-> J("m1")]} \cup {[id |-> J("m1"), status |-> J(st)] : st \in Statuses}

\* line 84: status = message.get("status")
StatusOf(msg) == Get(msg, "status")

\* Mutant: anything but RUNNING counts as terminal.
IsTerminalLoose(status) == status # J("RUNNING")

\* line 86: status in ("COMPLETED", "FAILED")
IsTerminal(status) == status \in {J(st) : st \in TerminalStatuses}

\* Mutant: the loop also runs when the elapsed time equals the timeout.
LoopCondInclusive(elapsed, tmo) == elapsed <= tmo

\* line 78: while time.time() - start_time < timeout
LoopCond(elapsed, tmo) == elapsed < tmo

\* The responses a service may give to fetch number n. A fixture answers
\* RUNNING on fetches 1..N-1 and its terminal status from fetch N on.
PollResponses(service, n) ==
    IF service.mode = "fixture"
    THEN {[status_code |-> 200, text |-> "b1",
           json |-> [id |-> J("m1"),
                     status |-> J(IF n < service.N THEN "RUNNING" ELSE service.final)]]}
    ELSE {[status_code |-> 200, text |-> "b1", json |-> m] : m \in Messages}
         \cup {[status_code |-> c, text |-> b, json |-> None] :
                 c \in HttpCodes \ {200}, b \in Bodies}

Services ==
    {[mode |-> "free"]}
    \cup {[mode |-> "fixture", N |-> n, final |-> f] :
            n \in 1..MaxFixtureN, f \in TerminalStatuses}

\* The variables of a poll call in a specification that makes none.
PollOff ==
    /\ pollPc = "off"
    /\ poll_interval = 0
    /\ timeout = 0
    /\ svc = [mode |-> "free"]
    /\ now = 0
    /\ start_time = 0
    /\ fetches = 0
    /\ lastFetch = None
    /\ pollResult = [kind |-> "none"]

\* lines 73-76: the call is entered, start_time = time.time().
PollEntered ==
    /\ pollPc = "loop"
    /\ poll_interval \in 1..MaxInterval
    /\ timeout \in 0..MaxTimeout
    /\ svc \in Services
    /\ now = 0
    /\ start_time = now
    /\ fetches = 0
    /\ lastFetch = None
    /\ pollResult = [kind |-> "none"]

\* lines 78-87 and 91: one evaluation of the loop condition and, when it
\* holds, one fetch and the tests on its response.
PollIterate ==
    /\ pollPc = "loop"
    /\ IF ~LoopCond(now - start_time, timeout)
       THEN /\ pollPc' = "done"
            /\ pollResult' = [kind |-> "TimeoutError"]
            /\ UNCHANGED <<now, fetches, lastFetch>>
       ELSE \E response \in PollResponses(svc, fetches + 1),
               latency \in (IF svc.mode = "fixture" THEN {0} ELSE 0..MaxLatency) :
            /\ fetches' = fetches + 1
            /\ lastFetch' = [elapsed |-> now - start_time, response |-> response]
            /\ now' = now + latency
            /\ LET got == PollFetch(response)
               IN  IF ~got.ok
                   THEN /\ pollPc' = "done"
                        /\ pollResult' = [kind |-> "Exception", error |-> got.error]
                   ELSE IF IsTerminal(StatusOf(got.ret))
                   THEN /\ pollPc' = "done"
                        /\ pollResult' = [kind |-> "message", message |-> got.ret]
                   ELSE /\ pollPc' = "sleep"
                        /\ UNCHANGED pollResult
    /\ UNCHANGED <<poll_interval, timeout, svc, start_time>>
    /\ UNCHANGED <<histVars, sessVars, dispVars, httpVars, accVars>>

\* line 89: time.sleep(poll_interval); the clock advances by poll_interval,
\* and by no more under the fixture's clock.
PollSleep ==
    /\ pollPc = "sleep"
    /\ \E extra \in (IF svc.mode = "fixture" THEN {0} ELSE 0..MaxLatency) :
         now' = now + poll_interval + extra
    /\ pollPc' = "loop"
    /\ UNCHANGED <<poll_interval, timeout, svc, start_time, fetches, lastFetch,
                   pollResult>>
    /\ UNCHANGED <<histVars, sessVars, dispVars, httpVars, accVars>>

NextPoll == PollIterate \/ PollSleep

\* ------------------------------------------------------------ chat history
Sessions == {"u1", "u2"}
SessionNo(s) == IF s = "u1" THEN 1 ELSE 2

\* lines 32-37 load_spaces_config: the ids of genie_spaces.json, in order.
space_ids == <<"s1", "s2">>

\* A history entry (lines 394-401, 436-443); the timestamp is left out.
Entry(prompt, conv, msg, space, user) ==
    [prompt |-> prompt, conversation_id |-> conv, message_id |-> msg,
     space_id |-> space, user |-> user]

\* The file: absent, holding a JSON list, empty (just opened with 'w'), or
\* holding bytes that do not parse (as long as the text of n entries).
NoFile == [exists |-> FALSE]
JsonFile(data) == [exists |-> TRUE, text |-> "json", data |-> data]
EmptyFile == [exists |-> TRUE, text |-> "empty"]
CorruptFile(n) == [exists |-> TRUE, text |-> "corrupt", len |-> n]

\* The length of the file's text, counted in entries: the entries of the
\* model serialise to texts of one size.
FileLen(file) ==
    IF file.text = "json" THEN Len(file.data)
    ELSE IF file.text = "corrupt" THEN file.len
    ELSE 0

\* lines 44-49 load_chat_history: creates the file holding [] when it is
\* absent, then parses it; json.load raises on bytes that are no JSON.
LoadChatHistory(file) ==
    LET f == IF file.exists THEN file ELSE JsonFile(<<>>)
    IN  IF f.text = "json"
        THEN [file |-> f, raised |-> FALSE, history |-> f.data]
        ELSE [file |-> f, raised |-> TRUE, history |-> <<>>]

\* Mutant: the write drops what was loaded.
WrittenHistoryOnlyNew(history, entry) == <<entry>>

\* line 53: history.append(entry)
WrittenHistory(history, entry) == Append(history, entry)

\* lines 51-55 append_chat_history run without interruption.
AppendChatHistory(file, entry) ==
    LET l == LoadChatHistory(file)
    IN  IF l.raised THEN [file |-> l.file, raised |-> TRUE]
        ELSE [file |-> JsonFile(WrittenHistory(l.history, entry)), raised |-> FALSE]

\* An entry an earlier session left in the file.
PriorEntry == Entry("p0", 0, 100, "s2", "u0")

\* The file as a session may find it: absent, empty, or holding an entry.
FileInit ==
    /\ chatFile \in {NoFile, JsonFile(<<>>), JsonFile(<<PriorEntry>>)}
    /\ priorHistory = (IF chatFile.exists THEN chatFile.data ELSE <<>>)

FileOff ==
    /\ chatFile = NoFile
    /\ priorHistory = <<>>

AppOff ==
    /\ appPc = [s \in Sessions |-> "off"]
    /\ appLocal = [s \in Sessions |-> <<>>]
    /\ appEntry = [s \in Sessions |-> None]
    /\ appended = <<>>

AppInit ==
    /\ appPc = [s \in Sessions |-> "idle"]
    /\ appLocal = [s \in Sessions |-> <<>>]
    /\ appEntry = [s \in Sessions |-> None]
    /\ appended = <<>>

AppendsBy(s) == Len(SelectSeq(appended, LAMBDA e : e.user = s))

\* The handler of session s calls append_chat_history(entry) (lines 394,
\* 436); a handler that raised has ended and the next submission runs anew.
AppendCall(s) ==
    /\ appPc[s] \in {"idle", "raised"}
    /\ AppendsBy(s) < MaxAppends
    /\ \E space \in Range(space_ids) :
         appEntry' = [appEntry EXCEPT ![s] =
            Entry("p", SessionNo(s), 10 * (AppendsBy(s) + 1) + SessionNo(s), space, s)]
    /\ appPc' = [appPc EXCEPT ![s] = "load"]
    /\ UNCHANGED <<chatFile, priorHistory, appLocal, appended>>
    /\ UNCHANGED <<pollVars, sessVars, dispVars, httpVars, accVars>>

\* lines 52-53: history = load_chat_history(); history.append(entry)
AppendLoad(s) ==
    /\ appPc[s] = "load"
    /\ LET l == LoadChatHistory(chatFile)
       IN  /\ chatFile' = l.file
           /\ IF l.raised
              THEN /\ appPc' = [appPc EXCEPT ![s] = "raised"]
                   /\ UNCHANGED appLocal
              ELSE /\ appPc' = [appPc EXCEPT ![s] = "open"]
                   /\ appLocal' = [appLocal EXCEPT ![s] =
                                     WrittenHistory(l.history, appEntry[s])]
    /\ UNCHANGED <<priorHistory, appEntry, appended>>
    /\ UNCHANGED <<pollVars, sessVars, dispVars, httpVars, accVars>>

\* line 54: open(CHAT_HISTORY_FILE, 'w') truncates the file.
AppendOpen(s) ==
    /\ appPc[s] = "open"
    /\ chatFile' = EmptyFile
    /\ appPc' = [appPc EXCEPT ![s] = "dump"]
    /\ UNCHANGED <<priorHistory, appLocal, appEntry, appended>>
    /\ UNCHANGED <<pollVars, sessVars, dispVars, httpVars, accVars>>

\* What the file holds after a session dumps `history` into it. The bytes
\* go to offset 0 of the session's own descriptor: over a longer text that
\* another session wrote since the open, the tail of that text stays.
Dumped(file, history) ==
    IF FileLen(file) > Len(history)
    THEN CorruptFile(FileLen(file))
    ELSE JsonFile(history)

\* line 55: json.dump(history, f) and the close of the file.
AppendDump(s) ==
    /\ appPc[s] = "dump"
    /\ chatFile' = Dumped(chatFile, appLocal[s])
    /\ appPc' = [appPc EXCEPT ![s] = "idle"]
    /\ appended' = Append(appended, appEntry[s])
    /\ UNCHANGED <<priorHistory, appLocal, appEntry>>
    /\ UNCHANGED <<pollVars, sessVars, dispVars, httpVars, accVars>>

NextHist ==
    \E s \in Sessions : AppendCall(s) \/ AppendLoad(s) \/ AppendOpen(s) \/ AppendDump(s)

\* ----------------------------------------------------------- access control
\* genie_access_control.json maps an email to a list of space ids; only
\* membership in the list is read, so the list is a set here.
NoAccess == [e \in {} |-> {}]

\* line 273: st.user.email.lower() of the chat session that is modelled.
SessionUser == "u1"

\* line 274: access_control.get(user_email, [])
UserAccess(control, email) == IF email \in DOMAIN control THEN control[email] ELSE {}

\* lines 276-277, 298: the page goes on past the gate when the user has a granted
\* space that is configured; otherwise it shows the request form and stops.
PassesGate(control, email) ==
    /\ UserAccess(control, email) # {}
    /\ \E space_id \in UserAccess(control, email) : space_id \in Range(space_ids)

NonEmptySubsets(S) == SUBSET S \ {{}}

AccOff ==
    /\ access_control = NoAccess
    /\ access_requests = <<>>
    /\ reqPc = [s \in Sessions |-> "off"]
    /\ reqLocal = [s \in Sessions |-> <<>>]
    /\ adminPc = "off"
    /\ adminAccess = NoAccess
    /\ adminRequests = <<>>
    /\ adminGrant = None

\* The access file as the chat page of SessionUser may find it: no entry,
\* or any set of configured spaces granted.
AccSession ==
    /\ access_control \in
         {NoAccess} \cup {[e \in {SessionUser} |-> S] : S \in SUBSET Range(space_ids)}
    /\ access_requests = <<>>
    /\ reqPc = [s \in Sessions |-> "off"]
    /\ reqLocal = [s \in Sessions |-> <<>>]
    /\ adminPc = "off"
    /\ adminAccess = NoAccess
    /\ adminRequests = <<>>
    /\ adminGrant = None

\* Both files as load_access_control and load_access_requests create them
\* (lines 170-187): {} and [].
AccInit ==
    /\ access_control = NoAccess
    /\ access_requests = <<>>
    /\ reqPc = [s \in Sessions |-> "idle"]
    /\ reqLocal = [s \in Sessions |-> <<>>]
    /\ adminPc = "idle"
    /\ adminAccess = NoAccess
    /\ adminRequests = <<>>
    /\ adminGrant = None

HasRequest(requests_list, email) ==
    \E i \in 1..Len(requests_list) : requests_list[i].email = email

\* genie_ui2.py lines 277-286: user u, stopped at the gate, submits the
\* request form with a selection; the handler loads the request list and
\* goes on unless it holds a request of u already.
RequestLoad(u) ==
    /\ reqPc[u] = "idle"
    /\ ~PassesGate(access_control, u)
    /\ \E requested \in NonEmptySubsets(Range(space_ids)) :
         LET requests_list == access_requests
         IN  /\ ~HasRequest(requests_list, u)
             /\ reqLocal' = [reqLocal EXCEPT ![u] =
                    Append(requests_list, [email |-> u, requested_spaces |-> requested])]
    /\ reqPc' = [reqPc EXCEPT ![u] = "save"]
    /\ UNCHANGED <<access_control, access_requests, adminPc, adminAccess,
                   adminRequests, adminGrant>>
    /\ UNCHANGED <<pollVars, histVars, sessVars, dispVars, httpVars>>

\* genie_ui2.py lines 287-292: save_access_requests(requests_list).
RequestSave(u) ==
    /\ reqPc[u] = "save"
    /\ access_requests' = reqLocal[u]
    /\ reqPc' = [reqPc EXCEPT ![u] = "idle"]
    /\ UNCHANGED <<access_control, reqLocal, adminPc, adminAccess, adminRequests,
                   adminGrant>>
    /\ UNCHANGED <<pollVars, histVars, sessVars, dispVars, httpVars>>

\* genie_access_admin.py lines 78-100: the run that a click on "Grant
\* Access" starts loads both files and finds form idx submitted with a
\* non-empty selection among the spaces that request asks for.
AdminLoad ==
    /\ adminPc = "idle"
    /\ adminAccess' = access_control
    /\ adminRequests' = access_requests
    /\ \E idx \in 1..Len(access_requests) :
         \E grant_spaces \in NonEmptySubsets(access_requests[idx].requested_spaces) :
            adminGrant' = [email |-> access_requests[idx].email,
                           grant_spaces |-> grant_spaces]
    /\ adminPc' = "grant"
    /\ UNCHANGED <<access_control, access_requests, reqPc, reqLocal>>
    /\ UNCHANGED <<pollVars, histVars, sessVars, dispVars, httpVars>>

\* genie_access_admin.py lines 103-105: the email's list becomes the union
\* of what it held and grant_spaces.
GrantedAccess(control, email, grant_spaces) ==
    [e \in DOMAIN control \cup {email} |->
        IF e = email THEN UserAccess(control, email) \cup grant_spaces
        ELSE control[e]]

\* genie_access_admin.py lines 103-106: save_access_control(access_control).
AdminSaveAccess ==
    /\ adminPc = "grant"
    /\ adminAccess' = GrantedAccess(adminAccess, adminGrant.email,
                                    adminGrant.grant_spaces)
    /\ access_control' = adminAccess'
    /\ adminPc' = "remove"
    /\ UNCHANGED <<access_requests, reqPc, reqLocal, adminRequests, adminGrant>>
    /\ UNCHANGED <<pollVars, histVars, sessVars, dispVars, httpVars>>

\* genie_access_admin.py line 108: the loaded list without the email's
\* requests.
WithoutRequestsOf(requests_list, email) ==
    SelectSeq(requests_list, LAMBDA r : r.email # email)

\* genie_access_admin.py lines 108-111: save_access_requests(requests_list)
\* and the rerun.
AdminSaveRequests ==
    /\ adminPc = "remove"
    /\ adminRequests' = WithoutRequestsOf(adminRequests, adminGrant.email)
    /\ access_requests' = adminRequests'
    /\ adminPc' = "idle"
    /\ UNCHANGED <<access_control, reqPc, reqLocal, adminAccess, adminGrant>>
    /\ UNCHANGED <<pollVars, histVars, sessVars, dispVars, httpVars>>

NextAcc ==
    \/ \E u \in Sessions : RequestLoad(u) \/ RequestSave(u)
    \/ AdminLoad \/ AdminSaveAccess \/ AdminSaveRequests

\* ------------------------------------------- the chat page of one session
Prompts == {"q1"}
FollowUps == {"q2"}

\* What poll_genie_message gives its caller: a message, or one of its two
\* exceptions, which ends the handler.
PollOutcomes == {"message", "TimeoutError", "Exception"}

\* st.session_state with the keys of `update` set.
SetKeys(ss, update) ==
    [k \in DOMAIN ss \cup DOMAIN update |->
        IF k \in DOMAIN update THEN update[k] ELSE ss[k]]

EmptyState == [k \in {} |-> 0]

\* line 337: SPACE_ID = space_ids[selected_space_idx]
SPACE_ID == space_ids[selected_space_idx + 1]

\* The answers of the service to start-conversation: a fresh conversation
\* and message, or a failure.
StartResponses(id) ==
    {[status_code |-> 200, text |-> "b1",
      json |-> [conversation_id |-> id, message_id |-> 100 + id]]}
    \cup {[status_code |-> c, text |-> "b1", json |-> None] : c \in HttpCodes \ {200}}

\* The answers of the service to a follow-up: a fresh message, or a failure.
FollowupResponses(id) ==
    {[status_code |-> 200, text |-> "b1", json |-> [message_id |-> 100 + id]]}
    \cup {[status_code |-> c, text |-> "b1", json |-> None] : c \in HttpCodes \ {200}}

SessOff ==
    /\ session_state = EmptyState
    /\ selected_space_idx = 0
    /\ requests = <<>>
    /\ ops = <<>>
    /\ lastEvent = "off"
    /\ lastPoll = "none"
    /\ convSpace = [c \in {} |-> ""]
    /\ nextId = 0

\* lines 320-321: the first run sets selected_space_idx to 0; no
\* conversation is current. Conversation 0 was created in space s2.
SessInit ==
    /\ session_state = EmptyState
    /\ selected_space_idx = 0
    /\ requests = <<>>
    /\ ops = <<>>
    /\ lastEvent = "init"
    /\ lastPoll = "none"
    /\ convSpace = [c \in {PriorEntry.conversation_id} |-> PriorEntry.space_id]
    /\ nextId = 1

\* line 341: every run of the script loads the history for the sidebar.
SidebarFile(file) == LoadChatHistory(file).file

\* lines 328-337: the user picks entry i of the space selectbox.
SelectSpace ==
    /\ lastEvent # "off"
    /\ PassesGate(access_control, SessionUser)
    /\ \E i \in 0..(Len(space_ids) - 1) :
         /\ i # selected_space_idx
         /\ selected_space_idx' = i
    /\ chatFile' = SidebarFile(chatFile)
    /\ lastEvent' = "selectSpace"
    /\ UNCHANGED <<session_state, requests, ops, lastPoll, convSpace, nextId,
                   priorHistory>>
    /\ UNCHANGED <<appPc, appLocal, appEntry, appended>>
    /\ UNCHANGED <<pollVars, dispVars, httpVars, accVars>>

\* lines 341-347: the user clicks button i of the sidebar, which lists the
\* history newest first.
SelectHistory ==
    /\ lastEvent # "off"
    /\ PassesGate(access_control, SessionUser)
    /\ LET chat_history == LoadChatHistory(chatFile).history
       IN  \E i \in 0..(Len(chat_history) - 1) :
             LET entry == chat_history[Len(chat_history) - i]
             IN  session_state' = SetKeys(session_state,
                    [conversation_id |-> entry.conversation_id,
                     message_id |-> entry.message_id,
                     last_prompt |-> entry.prompt])
    /\ chatFile' = SidebarFile(chatFile)
    /\ lastEvent' = "selectHistory"
    /\ UNCHANGED <<selected_space_idx, requests, ops, lastPoll, convSpace, nextId,
                   priorHistory>>
    /\ UNCHANGED <<appPc, appLocal, appEntry, appended>>
    /\ UNCHANGED <<pollVars, dispVars, httpVars, accVars>>

\* lines 387-392: the session state after a successful start.
StartSessionState(ss, conv, prompt) ==
    SetKeys(ss, [conversation_id |-> conv.conversation_id,
                 message_id |-> conv.message_id,
                 last_prompt |-> prompt])

\* lines 382-406: the main prompt form is submitted with a prompt.
SubmitPrompt ==
    /\ lastEvent # "off"
    /\ PassesGate(access_control, SessionUser)
    /\ Len(ops) < MaxOps
    /\ \E prompt \in Prompts, res \in StartResponses(nextId),
          outcome \in PollOutcomes \cup {"none"} :
         LET conv == StartConversation(res)
             created == res.json # None
         IN  /\ lastPoll' = outcome
             /\ nextId' = IF created THEN nextId + 1 ELSE nextId
             /\ convSpace' = IF created
                             THEN [c \in DOMAIN convSpace \cup {res.json.conversation_id} |->
                                     IF c = res.json.conversation_id THEN SPACE_ID
                                     ELSE convSpace[c]]
                             ELSE convSpace
             /\ IF conv.ok
                THEN /\ outcome # "none"
                     /\ session_state' = StartSessionState(session_state, conv.ret, prompt)
                     /\ chatFile' = AppendChatHistory(SidebarFile(chatFile),
                                       Entry(prompt, conv.ret.conversation_id,
                                             conv.ret.message_id, SPACE_ID,
                                             SessionUser)).file
                     /\ requests' = requests \o
                          <<[call |-> "start", space_id |-> SPACE_ID],
                            [call |-> "poll", space_id |-> SPACE_ID,
                             conversation_id |-> conv.ret.conversation_id,
                             message_id |-> conv.ret.message_id]>>
                     /\ ops' = Append(ops, [op |-> "start", ok |-> TRUE, prompt |-> prompt,
                                            conversation_id |-> conv.ret.conversation_id,
                                            message_id |-> conv.ret.message_id,
                                            before |-> session_state])
                ELSE /\ outcome = "none"
                     /\ chatFile' = SidebarFile(chatFile)
                     /\ requests' = Append(requests,
                                           [call |-> "start", space_id |-> SPACE_ID])
                     /\ ops' = Append(ops, [op |-> "start", ok |-> FALSE, prompt |-> prompt,
                                            before |-> session_state])
                     /\ UNCHANGED session_state
    /\ lastEvent' = "start"
    /\ UNCHANGED <<selected_space_idx, priorHistory>>
    /\ UNCHANGED <<appPc, appLocal, appEntry, appended>>
    /\ UNCHANGED <<pollVars, dispVars, httpVars, accVars>>

\* Mutant: the follow-up's message id is not made current.
FollowupSessionStateKept(ss, response) == ss

\* lines 433-434: the session state after a successful follow-up.
FollowupSessionState(ss, response) ==
    SetKeys(ss, [message_id |-> response.message_id])

\* lines 409-448: the follow-up form, shown when a conversation is current,
\* is submitted with a text.
SubmitFollowup ==
    /\ lastEvent # "off"
    /\ PassesGate(access_control, SessionUser)
    /\ Len(ops) < MaxOps
    /\ "conversation_id" \in DOMAIN session_state
    /\ "message_id" \in DOMAIN session_state
    /\ \E follow_up \in FollowUps, res \in FollowupResponses(nextId),
          outcome \in PollOutcomes \cup {"none"} :
         LET conversation_id == session_state.conversation_id
             response == SendFollowupMessage(res)
             created == res.json # None
         IN  /\ lastPoll' = outcome
             /\ nextId' = IF created THEN nextId + 1 ELSE nextId
             /\ IF response.ok
                THEN /\ outcome # "none"
                     /\ session_state' = FollowupSessionState(session_state, response.ret)
                     /\ chatFile' = AppendChatHistory(SidebarFile(chatFile),
                                       Entry(follow_up, conversation_id,
                                             response.ret.message_id, SPACE_ID,
                                             SessionUser)).file
                     /\ requests' = requests \o
                          <<[call |-> "followUp", space_id |-> SPACE_ID,
                             conversation_id |-> conversation_id],
                            [call |-> "poll", space_id |-> SPACE_ID,
                             conversation_id |-> conversation_id,
                             message_id |-> response.ret.message_id]>>
                     /\ ops' = Append(ops, [op |-> "followUp", ok |-> TRUE,
                                            prompt |-> follow_up,
                                            conversation_id |-> conversation_id,
                                            message_id |-> response.ret.message_id,
                                            before |-> session_state])
                ELSE /\ outcome = "none"
                     /\ chatFile' = SidebarFile(chatFile)
                     /\ requests' = Append(requests,
                                           [call |-> "followUp", space_id |-> SPACE_ID,
                                            conversation_id |-> conversation_id])
                     /\ ops' = Append(ops, [op |-> "followUp", ok |-> FALSE,
                                            prompt |-> follow_up,
                                            before |-> session_state])
                     /\ UNCHANGED session_state
    /\ lastEvent' = "followUp"
    /\ UNCHANGED <<selected_space_idx, convSpace, priorHistory>>
    /\ UNCHANGED <<appPc, appLocal, appEntry, appended>>
    /\ UNCHANGED <<pollVars, dispVars, httpVars, accVars>>

NextSess == SelectSpace \/ SelectHistory \/ SubmitPrompt \/ SubmitFollowup

\* --------------------------------------------------- display_genie_message
\* Attachments of a message: a text payload, a query payload (with or
\* without description and attachment_id), or an element with neither key.
AttachmentValues ==
    {[text |-> [content |-> J("t1")]],
     [query |-> [query |-> J("SELECT 1"), description |-> J("d1")],
      attachment_id |-> J("a1")],
     [query |-> [query |-> J("select 2")]],
     [suggested_questions |-> J("x")]}

RECURSIVE SeqsUpTo(_, _)
SeqsUpTo(S, n) ==
    IF n = 0 THEN {<<>>}
    ELSE LET shorter == SeqsUpTo(S, n - 1)
         IN  shorter \cup {Append(q, x) : q \in shorter, x \in S}

DisplayMessages ==
    {[id |-> J("m1"), conversation_id |-> J("c1"), content |-> J("q1")]}
    \cup {[id |-> J("m1"), conversation_id |-> J("c1"), content |-> J("q1"),
           attachments |-> atts] : atts \in SeqsUpTo(AttachmentValues, MaxAttachments)}

Columns2 == <<[name |-> J("date")], [name |-> J("volume")]>>

\* The JSON bodies the query-result endpoint may answer with.
GenieResults ==
    {[statement_response |->
        [manifest |-> [schema |-> [columns |-> Columns2]],
         result |-> [data_array |-> << <<J("2024-01-01"), J("100")>> >>]]],
     [statement_response |->
        [manifest |-> [schema |-> [columns |-> Columns2]],
         result |-> [data_array |-> <<>>]]],
     [statement_response |->
        [manifest |-> [schema |-> [columns |-> Columns2]],
         result |-> [data_array |-> << <<J("2024-01-01")>> >>]]],
     [statement_response |->
        [manifest |-> [schema |-> [columns |-> Columns2]],
         result |-> [row_count |-> J("0")]]],
     [statement_response |-> [manifest |-> [schema |-> [columns |-> Columns2]]]],
     [statement_response |-> [status |-> J("FAILED")]],
     [error_code |-> J("x")]}

FetchResponses ==
    {[status_code |-> 200, text |-> "b1", json |-> g] : g \in GenieResults}
    \cup {[status_code |-> c, text |-> "b1", json |-> None] : c \in HttpCodes \ {200}}

EmptyDataFrame == [columns |-> <<>>, data |-> <<>>]

\* lines 161: df.empty
DfEmpty(df) == Len(df.data) = 0 \/ Len(df.columns) = 0

\* lines 106-109: the subscripts and pd.DataFrame(data, columns=columns);
\* ok is FALSE where Python raises (a subscript of None, a missing key, rows
\* whose width is not the number of columns).
ParseGenieResult(genie_result) ==
    IF genie_result = None \/ "statement_response" \notin DOMAIN genie_result
    THEN [ok |-> FALSE]
    ELSE LET statement == genie_result.statement_response
         IN  IF \/ "manifest" \notin DOMAIN statement
                \/ "schema" \notin DOMAIN statement.manifest
                \/ "columns" \notin DOMAIN statement.manifest.schema
                \/ \E i \in 1..Len(statement.manifest.schema.columns) :
                      "name" \notin DOMAIN statement.manifest.schema.columns[i]
             THEN [ok |-> FALSE]
             ELSE LET cols == statement.manifest.schema.columns
                      columns == [i \in 1..Len(cols) |-> cols[i].name]
                  IN  IF \/ "result" \notin DOMAIN statement
                         \/ "data_array" \notin DOMAIN statement.result
                      THEN [ok |-> FALSE]
                      ELSE LET data == statement.result.data_array
                           IN  IF \E r \in 1..Len(data) : Len(data[r]) # Len(columns)
                               THEN [ok |-> FALSE]
                               ELSE [ok |-> TRUE,
                                     df |-> [columns |-> columns, data |-> data]]

\* Mutant: no try/except, the exception reaches the caller.
ExtractUnguarded(genie_result) ==
    LET p == ParseGenieResult(genie_result)
    IN  IF p.ok THEN [raised |-> FALSE, error |-> None, df |-> p.df]
        ELSE [raised |-> TRUE, error |-> None, df |-> EmptyDataFrame]

\* lines 104-113 extract_dataframe_from_genie_result: the table, or after
\* st.error(f"Failed to parse Genie result: {e}") an empty DataFrame.
ExtractDataframe(genie_result) ==
    LET p == ParseGenieResult(genie_result)
    IN  IF p.ok THEN [raised |-> FALSE, error |-> None, df |-> p.df]
        ELSE [raised |-> FALSE,
              error |-> [shown |-> "Failed to parse Genie result"],
              df |-> EmptyDataFrame]

\* line 148: sqlparse.format(sql, reindent=True, keyword_case='lower')
SqlFormat(sql) == IF sql = J("SELECT 1") THEN J("select 1") ELSE sql

\* lines 140-143: what is rendered for a text attachment.
TextItem(attachment) == [kind |-> "Text", content |-> attachment.text.content]

\* Mutant: the attachment id is not read from the attachment.
QueryItemNoId(attachment, df) ==
    [kind |-> "Query",
     sql |-> SqlFormat(attachment.query.query),
     description |-> IF "description" \in DOMAIN attachment.query
                     THEN attachment.query.description ELSE J(""),
     attachment_id |-> None,
     df |-> df]

\* lines 145-163: what is rendered for a query attachment, and the
\* attachment id its result is fetched under.
QueryItem(attachment, df) ==
    [kind |-> "Query",
     sql |-> SqlFormat(attachment.query.query),
     description |-> IF "description" \in DOMAIN attachment.query
                     THEN attachment.query.description ELSE J(""),
     attachment_id |-> Get(attachment, "attachment_id"),
     df |-> df]

\* line 134: attachments = message.get("attachments", [])
AttachmentsOf(msg) == IF "attachments" \in DOMAIN msg THEN msg.attachments ELSE <<>>

\* The call is entered with a message poll_genie_message returned.
DispEntered ==
    /\ dispPc = "enter"
    /\ message \in DisplayMessages
    /\ attIdx = 0
    /\ items = <<>>
    /\ errors = <<>>
    /\ fetched = <<>>

\* lines 131-137: the prompt is shown; without attachments the call returns.
DisplayBegin ==
    /\ dispPc = "enter"
    /\ IF Len(AttachmentsOf(message)) = 0
       THEN dispPc' = "done" /\ attIdx' = 1
       ELSE dispPc' = "loop" /\ attIdx' = 1
    /\ UNCHANGED <<message, items, errors, fetched>>
    /\ UNCHANGED <<pollVars, histVars, sessVars, httpVars, accVars>>

\* lines 139-163: one pass of the for loop over the attachments.
DisplayAttachment ==
    /\ dispPc = "loop"
    /\ LET attachments == AttachmentsOf(message)
           attachment == attachments[attIdx]
           after == IF attIdx = Len(attachments) THEN "done" ELSE "loop"
       IN  IF "text" \in DOMAIN attachment
           THEN /\ items' = Append(items, TextItem(attachment))
                /\ fetched' = Append(fetched, None)
                /\ dispPc' = after
                /\ UNCHANGED errors
           ELSE IF "query" \in DOMAIN attachment
           THEN \E res \in FetchResponses :
                  LET result_json == FetchAttachment(res)
                      ex == ExtractDataframe(result_json.ret)
                      shown == (IF result_json.ok THEN <<>>
                                ELSE <<[at |-> attIdx, error |-> result_json.error]>>)
                               \o (IF ex.error = None THEN <<>>
                                   ELSE <<[at |-> attIdx, error |-> ex.error]>>)
                  IN  /\ fetched' = Append(fetched, [response |-> res])
                      /\ errors' = errors \o shown
                      /\ IF ex.raised
                         THEN dispPc' = "raised" /\ UNCHANGED items
                         ELSE /\ items' = Append(items, QueryItem(attachment, ex.df))
                              /\ dispPc' = after
           ELSE /\ fetched' = Append(fetched, None)
                /\ dispPc' = after
                /\ UNCHANGED <<items, errors>>
    /\ attIdx' = attIdx + 1
    /\ UNCHANGED message
    /\ UNCHANGED <<pollVars, histVars, sessVars, httpVars, accVars>>

NextDisp == DisplayBegin \/ DisplayAttachment

\* -------------------------------------- the wrappers on single responses
HttpResponses ==
    {[status_code |-> c, text |-> b, json |-> J("body")] : c \in HttpCodes, b \in Bodies}

\* start_conversation gets response res.
HttpStart ==
    /\ Len(httpLog) < MaxCalls
    /\ \E res \in HttpResponses :
         httpLog' = Append(httpLog, [call |-> "start", response |-> res,
                                     result |-> StartConversation(res)])
    /\ UNCHANGED <<pollVars, histVars, sessVars, dispVars, accVars>>

\* A fetch of poll_genie_message gets response res.
HttpPollFetch ==
    /\ Len(httpLog) < MaxCalls
    /\ \E res \in HttpResponses :
         httpLog' = Append(httpLog, [call |-> "poll", response |-> res,
                                     result |-> PollFetch(res)])
    /\ UNCHANGED <<pollVars, histVars, sessVars, dispVars, accVars>>

\* fetch_attachment gets response res.
HttpFetchAttachment ==
    /\ Len(httpLog) < MaxCalls
    /\ \E res \in HttpResponses :
         httpLog' = Append(httpLog, [call |-> "fetchQueryResult", response |-> res,
                                     result |-> FetchAttachment(res)])
    /\ UNCHANGED <<pollVars, histVars, sessVars, dispVars, accVars>>

\* send_followup_message gets response res.
HttpFollowup ==
    /\ Len(httpLog) < MaxCalls
    /\ \E res \in HttpResponses :
         httpLog' = Append(httpLog, [call |-> "followUp", response |-> res,
                                     result |-> SendFollowupMessage(res)])
    /\ UNCHANGED <<pollVars, histVars, sessVars, dispVars, accVars>>

NextHttp == HttpStart \/ HttpPollFetch \/ HttpFetchAttachment \/ HttpFollowup

\* ---------------------------------------------------------- specifications
DispOff ==
    /\ dispPc = "off"
    /\ message = None
    /\ attIdx = 0
    /\ items = <<>>
    /\ errors = <<>>
    /\ fetched = <<>>

HttpOff == httpLog = <<>>

\* One call of poll_genie_message, against a fixture or any service.
InitPoll == AccOff /\ PollEntered /\ FileOff /\ AppOff /\ SessOff /\ DispOff /\ HttpOff

SpecPoll == InitPoll /\ [][NextPoll]_vars /\ WF_vars(NextPoll)

\* Two sessions appending to the shared history file.
InitHist == AccOff /\ PollOff /\ FileInit /\ AppInit /\ SessOff /\ DispOff /\ HttpOff

SpecHist == InitHist /\ [][NextHist]_vars

\* One session of the chat page, alone on the history file.
InitSess == AccSession /\ PollOff /\ FileInit /\ AppOff /\ SessInit /\ DispOff /\ HttpOff

SpecSess == InitSess /\ [][NextSess]_vars

\* One call of display_genie_message on a message with attachments.
InitDisp == AccOff /\ PollOff /\ FileOff /\ AppOff /\ SessOff /\ DispEntered /\ HttpOff

SpecDisp == InitDisp /\ [][NextDisp]_vars

\* The four wrappers, each on any response.
InitHttp == AccOff /\ PollOff /\ FileOff /\ AppOff /\ SessOff /\ DispOff /\ HttpOff

SpecHttp == InitHttp /\ [][NextHttp]_vars

\* Users at the gate requesting access while the admin grants requests.
InitAcc == PollOff /\ FileOff /\ AppOff /\ SessOff /\ DispOff /\ HttpOff /\ AccInit

SpecAcc == InitAcc /\ [][NextAcc]_vars

\* ------------------------------------------------------------------ claims
TerminalJ == {J("COMPLETED"), J("FAILED")}

\* C1: poll_genie_message returns a message only when its status is
\* COMPLETED or FAILED; after a successful fetch whose status is anything
\* else, or missing, the call is still polling or has ended with TimeoutError.
C1_OnlyTerminalReturned ==
    /\ pollResult.kind = "message" => Get(pollResult.message, "status") \in TerminalJ
    /\ (/\ fetches > 0
        /\ lastFetch.response.status_code = 200
        /\ Get(lastFetch.response.json, "status") \notin TerminalJ)
       => \/ pollPc \in {"sleep", "loop"} /\ pollResult.kind = "none"
          \/ pollPc = "done" /\ pollResult.kind = "TimeoutError"

\* A free service answered non-terminal statuses, then a terminal one.
C1_Witness ==
    /\ pollPc = "done"
    /\ svc.mode = "free"
    /\ fetches >= 3
    /\ pollResult.kind = "message"

FixtureMessage == [id |-> J("m1"), status |-> J(svc.final)]

\* C2 as stated: against a fixture that turns terminal on fetch N, poll
\* returns the terminal message if N * poll_interval < timeout and raises
\* TimeoutError otherwise.
C2_Original ==
    (pollPc = "done" /\ svc.mode = "fixture")
    => IF svc.N * poll_interval < timeout
       THEN pollResult = [kind |-> "message", message |-> FixtureMessage]
       ELSE pollResult.kind = "TimeoutError"

\* C2 amended: against a fixture that turns terminal on fetch N, with a clock
\* that advances only by poll_interval per sleep, poll returns the terminal
\* message (after exactly N fetches) if (N - 1) * poll_interval < timeout and
\* raises TimeoutError otherwise.
C2_FixtureOutcome ==
    (pollPc = "done" /\ svc.mode = "fixture")
    => IF (svc.N - 1) * poll_interval < timeout
       THEN /\ pollResult = [kind |-> "message", message |-> FixtureMessage]
            /\ fetches = svc.N
       ELSE pollResult.kind = "TimeoutError"

\* A fixture with N >= 2 whose terminal fetch happens although
\* N * poll_interval has reached the timeout.
C2_Witness ==
    /\ pollPc = "done"
    /\ svc.mode = "fixture"
    /\ svc.N >= 2
    /\ svc.N * poll_interval >= timeout
    /\ pollResult.kind = "message"

\* C9: every call of poll_genie_message (poll_interval > 0) ends, with a
\* message, an Exception or a TimeoutError, whatever the service answers,
\* and every fetch is issued at an elapsed time below the timeout.
C9_PollEnds ==
    /\ [](fetches > 0 => lastFetch.elapsed < timeout)
    /\ <>(pollPc = "done" /\ pollResult.kind \in {"message", "Exception", "TimeoutError"})

\* A service that never answered a terminal status: the call timed out.
C9_Witness ==
    /\ pollPc = "done"
    /\ svc.mode = "free"
    /\ fetches >= 2
    /\ pollResult.kind = "TimeoutError"

IsPrefixOf(p, q) == Len(p) <= Len(q) /\ \A i \in 1..Len(p) : q[i] = p[i]

\* C3: once two sessions have each finished an append_chat_history call and
\* none is inside one, the file parses, begins with the entries it held
\* before, in order, and holds every appended entry.
C3_NoAppendLost ==
    (/\ \A s \in Sessions : appPc[s] = "idle" /\ AppendsBy(s) >= 1)
    => /\ chatFile.text = "json"
       /\ IsPrefixOf(priorHistory, chatFile.data)
       /\ \A i \in 1..Len(appended) : appended[i] \in Range(chatFile.data)

\* C4: each of the four HTTP calls succeeds exactly on a 2xx status, and
\* every failure carries the status code and the body text of the response.
C4_SuccessIff2xx ==
    \A i \in 1..Len(httpLog) :
        LET e == httpLog[i]
        IN  /\ e.result.ok <=> e.response.status_code \in 200..299
            /\ ~e.result.ok =>
                 /\ {"status_code", "text"} \subseteq DOMAIN e.result.error
                 /\ e.result.error.status_code = e.response.status_code
                 /\ e.result.error.text = e.response.text

HistoryData == IF chatFile.exists THEN chatFile.data ELSE <<>>
OkOps == SelectSeq(ops, LAMBDA o : o.ok)

\* C6: the history file holds the entries it held before the session and
\* then one entry per successful start or follow-up, in the order of the
\* submissions, each with the prompt, conversation id and message id of
\* that submission; failed submissions and the poll's outcome leave none.
C6_OneEntryPerSuccess ==
    /\ Len(HistoryData) = Len(priorHistory) + Len(OkOps)
    /\ IsPrefixOf(priorHistory, HistoryData)
    /\ \A i \in 1..Len(OkOps) :
         LET e == HistoryData[Len(priorHistory) + i]
         IN  /\ e.conversation_id = OkOps[i].conversation_id
             /\ e.message_id = OkOps[i].message_id
             /\ e.prompt = OkOps[i].prompt

\* A start and a follow-up succeeded on top of an earlier entry, and the
\* follow-up's poll timed out.
C6_Witness ==
    /\ Len(ops) = 2
    /\ ops[1].op = "start" /\ ops[1].ok
    /\ ops[2].op = "followUp" /\ ops[2].ok
    /\ lastPoll = "TimeoutError"
    /\ Len(priorHistory) = 1
    /\ Len(HistoryData) = 3

\* C7: right after a follow-up submission: if it succeeded, the session's
\* message id is the one the service returned, its conversation id is what
\* it was, and the poll request and the history entry carry that message id
\* and conversation id; if it failed, the session state is what it was.
C7_FollowupMessageCurrent ==
    lastEvent = "followUp"
    => LET o == Last(ops)
       IN  IF o.ok
           THEN /\ session_state.message_id = o.message_id
                /\ session_state.conversation_id = o.before.conversation_id
                /\ Last(requests).call = "poll"
                /\ Last(requests).message_id = o.message_id
                /\ Last(requests).conversation_id = o.before.conversation_id
                /\ Last(HistoryData).message_id = o.message_id
                /\ Last(HistoryData).conversation_id = o.before.conversation_id
           ELSE session_state = o.before

\* A follow-up succeeded and replaced the current message id.
C7_Witness ==
    /\ lastEvent = "followUp"
    /\ Last(ops).ok
    /\ Last(ops).before.message_id # session_state.message_id

\* C10: every follow-up and every poll is sent to the space in which its
\* conversation was created.
C10_SpaceBound ==
    \A i \in 1..Len(requests) :
        requests[i].call \in {"followUp", "poll"}
        => requests[i].space_id = convSpace[requests[i].conversation_id]

RECURSIVE HasPath(_, _)
HasPath(d, path) ==
    \/ path = <<>>
    \/ /\ d # None
       /\ Head(path) \in DOMAIN d
       /\ HasPath(d[Head(path)], Tail(path))

\* A query-result response that gives no table: the fetch failed, or the
\* body lacks the columns or the data_array.
LacksTable(res) ==
    \/ res.status_code # 200
    \/ ~HasPath(res.json, <<"statement_response", "manifest", "schema", "columns">>)
    \/ ~HasPath(res.json, <<"statement_response", "result", "data_array">>)

ParseErrorAt(i) ==
    \E k \in 1..Len(errors) :
        errors[k].at = i /\ errors[k].error.shown = "Failed to parse Genie result"

\* C5: display_genie_message never ends by an exception of the result
\* parser: a query attachment whose fetch failed or whose result lacks a
\* required key shows the parse failure, and the loop goes on to the
\* attachments after it, so that a finished call has visited all of them.
C5_MalformedResultContained ==
    /\ dispPc # "raised"
    /\ \A i \in 1..Len(fetched) :
         (fetched[i] # None /\ LacksTable(fetched[i].response)) => ParseErrorAt(i)
    /\ dispPc = "done" => Len(fetched) = Len(AttachmentsOf(message))
    /\ dispPc = "loop" => Len(fetched) = attIdx - 1

\* The first of two attachments is a query whose result has no data_array;
\* the second one was rendered after it.
C5_Witness ==
    /\ dispPc = "done"
    /\ Len(AttachmentsOf(message)) = 2
    /\ fetched[1] # None
    /\ fetched[1].response.status_code = 200
    /\ HasPath(fetched[1].response.json, <<"statement_response", "result">>)
    /\ ~HasPath(fetched[1].response.json, <<"statement_response", "result", "data_array">>)
    /\ ParseErrorAt(1)
    /\ Len(items) = 2

HasPayload(a) == "text" \in DOMAIN a \/ "query" \in DOMAIN a

\* Item `item` is the rendering of attachment a.
Renders(item, a) ==
    IF "text" \in DOMAIN a
    THEN item.kind = "Text" /\ item.content = a.text.content
    ELSE /\ item.kind = "Query"
         /\ item.sql = SqlFormat(a.query.query)
         /\ item.attachment_id = Get(a, "attachment_id")

\* C8: a finished display_genie_message has rendered the attachments that
\* carry a text or a query payload, one item each, in the order of the
\* response: a Text item with the content for a text payload, a Query item
\* with the (formatted) sql and the attachment id for a query payload.
C8_ItemsInOrder ==
    dispPc = "done"
    => LET atts == AttachmentsOf(message)
           shown == SelectSeq(atts, HasPayload)
       IN  /\ Len(items) = Len(shown)
           /\ \A i \in 1..Len(shown) : Renders(items[i], shown[i])
           /\ (\A i \in 1..Len(atts) : HasPayload(atts[i])) => Len(items) = Len(atts)

\* A query attachment with an attachment id, then a text attachment.
C8_Witness ==
    /\ dispPc = "done"
    /\ Len(AttachmentsOf(message)) = 2
    /\ "query" \in DOMAIN message.attachments[1]
    /\ "attachment_id" \in DOMAIN message.attachments[1]
    /\ "text" \in DOMAIN message.attachments[2]
    /\ Len(items) = 2

\* ------------------------------------------------------------------- C11
\* C11: whenever start_conversation or send_followup_message is called, the
\* space id it is called with is in the access list that the access-control
\* store holds for the logged-in user.
C11_OnlyGrantedSpaces ==
    \A i \in 1..Len(requests) :
        requests[i].call \in {"start", "followUp"}
            => requests[i].space_id \in UserAccess(access_control, SessionUser)

\* ------------------------------------------------------------------- C12
\* The step of a grant that saves the access map: the granted email gets
\* grant_spaces on top of what the file held for it, and every other
\* email's access stays as it was.
GrantAddsAccess ==
    LET email == adminGrant.email
    IN  /\ UserAccess(access_control', email) =
              UserAccess(access_control, email) \cup adminGrant.grant_spaces
        /\ \A other \in Sessions \ {email} :
              UserAccess(access_control', other) = UserAccess(access_control, other)

\* The step of a grant that saves the request list: the granted email's
\* request is gone, and every other email that had a request in the file
\* still has it.
GrantRemovesOwnRequest ==
    LET email == adminGrant.email
    IN  /\ ~HasRequest(access_requests', email)
        /\ \A other \in Sessions \ {email} :
              \A i \in 1..Len(access_requests) :
                 access_requests[i].email = other
                    => \E j \in 1..Len(access_requests') :
                          access_requests'[j] = access_requests[i]

\* C12: under any interleaving of request submissions and grants, a grant
\* adds the granted spaces to its email's access and removes nothing from
\* it, removes only that email's pending request, and drops no other
\* user's pending request or access.
C12_GrantAffectsOnlyItsEmail ==
    [][/\ (adminPc = "grant" /\ adminPc' = "remove") => GrantAddsAccess
       /\ (adminPc = "remove" /\ adminPc' = "idle") => GrantRemovesOwnRequest]_vars

====
